---- MODULE Spec2Model ----
(***************************************************************************)
(* Model of pytorch_segmentation_detection/utils/detection.py:             *)
(* the AnchorBoxesManager (anchor generation, encode), the geometry         *)
(* primitives (box format conversions, compute_bboxes_ious) and            *)
(* pad_to_size_with_bounding_boxes.                                        *)
(*                                                                         *)
(* Numbers.  A float32 tensor entry is modelled as an integer count of     *)
(* quanta, a quantum being half of one image unit, so that (r + 0.5) *     *)
(* stride and w * 0.5 stay integers for the sizes the model draws (all     *)
(* box sizes are even counts).  Every arithmetic result stored in a        *)
(* FloatTensor goes through fl, round-to-nearest-even on a 24 bit          *)
(* significand.  A quotient is kept as the pair <<numerator, denominator>> *)
(* and compared by cross multiplication.                                   *)
(***************************************************************************)
EXTENDS Integers, Sequences, FiniteSets, TLC

VARIABLES
    input_image_size,   \* self.input_image_size
    anchor_areas,       \* self.anchor_areas
    aspect_ratios,      \* self.aspect_ratios, each a quotient <<num, den>>
    stride,             \* self.stride
    anchor_boxes,       \* self.anchor_boxes, rows <<cx, cy, w, h>>
    built,              \* history: what the latest precompute_anchor_boxes read
    ground_truth_boxes_center_xywh,  \* the caller's ground-truth box tensor
    ground_truth_labels,             \* the caller's ground-truth label tensor
    ious,               \* encode's local ious, (N, M)
    match_ious,         \* encode's local anchor_boxes_best_groundtruth_match_ious
    match_ids,          \* encode's local anchor_boxes_best_groundtruth_match_ids (1-based)
    target_deltas,      \* encode's first return value
    target_labels,      \* encode's second return value
    bbox,               \* geometry: the box tensor row last produced
    bbox_format,        \* geometry: its format
    bbox_trail,         \* geometry: the boxes it was converted from, oldest first
    iou_args,           \* geometry: the two xyxy boxes last given to compute_bboxes_ious
    iou_result,         \* geometry: the iou returned for them
    input_img,          \* padding: the caller's image, [size, origin]
    padded_size,        \* padding: the size argument, <<width, height>>
    bboxes_center_xywh, \* padding: the caller's box tensor
    bboxes_given,       \* history: what that tensor held when the call was made
    processed_img,      \* padding: the first return value
    bboxes_center_xywhh_padded  \* padding: the second return value

managerVars == <<input_image_size, anchor_areas, aspect_ratios, stride, anchor_boxes, built>>
callVars == <<ious, match_ious, match_ids, target_deltas, target_labels>>
callerVars == <<ground_truth_boxes_center_xywh, ground_truth_labels>>
geometryVars == <<bbox, bbox_format, bbox_trail, iou_args, iou_result>>
padVars == <<input_img, padded_size, bboxes_center_xywh, bboxes_given, processed_img, bboxes_center_xywhh_padded>>
vars == <<managerVars, callerVars, callVars, geometryVars, padVars>>

----------------------------------------------------------------------------
(* float32 arithmetic *)

MantissaBits == 24

Abs(n) == IF n < 0 THEN -n ELSE n

Max2(a, b) == IF a >= b THEN a ELSE b

Min2(a, b) == IF a <= b THEN a ELSE b

\* every integer count below 2^24 in magnitude is a float32 value
SignificandLimit == 2^MantissaBits

\* spacing of the float32 values around magnitude m, in quanta
RECURSIVE Spacing(_)
Spacing(m) == IF m < SignificandLimit THEN 1 ELSE 2 * Spacing(m \div 2)

\* round to nearest representable value, ties to the even significand
round_to_nearest_even(n) ==
    LET a == Abs(n)
        s == Spacing(a)
        q == a \div s
        r == a % s
        up == (2 * r > s) \/ (2 * r = s /\ q % 2 = 1)
        m == (IF up THEN q + 1 ELSE q) * s
    IN IF n < 0 THEN -m ELSE m

\* the float32 value that stores the exact result n
fl[n \in Int] ==
    IF -SignificandLimit < n /\ n < SignificandLimit THEN n ELSE round_to_nearest_even(n)

\* x * 0.5, exact for the even counts the model draws
HalfOf(x) == x \div 2

\* quotient comparisons, denominators positive
QLt(a, b) == a[1] * b[2] < b[1] * a[2]
QLe(a, b) == a[1] * b[2] <= b[1] * a[2]
QEq(a, b) == a[1] * b[2] = b[1] * a[2]

RECURSIVE GCD(_, _)
GCD(a, b) == IF b = 0 THEN a ELSE GCD(b, a % b)

\* the float quotient a / b (b > 0), in lowest terms
Quot(a, b) ==
    LET g == GCD(Abs(a), b)
    IN <<a \div g, b \div g>>

\* torch.log of a positive quotient, kept symbolically: ln(q) is 0 exactly when q = 1
Log(q) == [ln |-> q]

----------------------------------------------------------------------------
(* geometry primitives *)

\* mutant: the corner is taken a whole size, not half a size, from the centre
center_to_topleft_whole_size(b) ==
    <<fl[b[1] - b[3]], fl[b[2] - b[4]], b[3], b[4]>>

\* clone() then two column writes that read the argument
convert_bbox_topleft_xywh_tensor_to_center_xywh(b) ==
    <<fl[b[1] + HalfOf(b[3])], fl[b[2] + HalfOf(b[4])], b[3], b[4]>>

convert_bbox_center_xywh_tensor_to_topleft_xywh(b) ==
    <<fl[b[1] - HalfOf(b[3])], fl[b[2] - HalfOf(b[4])], b[3], b[4]>>

convert_bbox_topleft_xywh_tensor_to_xyxy(b) ==
    <<b[1], b[2], fl[b[1] + b[3]], fl[b[2] + b[4]]>>

\* one row of convert_bbox_center_xywh_tensor_to_xyxy
center_xywh_row_to_xyxy(b) ==
    <<fl[b[1] - HalfOf(b[3])], fl[b[2] - HalfOf(b[4])],
      fl[b[1] + HalfOf(b[3])], fl[b[2] + HalfOf(b[4])]>>

\* mutant: no clone(), the four column writes go into the argument itself, so
\* the last two read the corner already written
convert_center_xywh_to_xyxy_in_place(t) ==
    LET written == [i \in 1..Len(t) |->
                        LET x0 == fl[t[i][1] - HalfOf(t[i][3])]
                            y0 == fl[t[i][2] - HalfOf(t[i][4])]
                        IN <<x0, y0, fl[x0 + HalfOf(t[i][3])], fl[y0 + HalfOf(t[i][4])]>>]
    IN [returned |-> written, argument |-> written]

\* The conversion of a whole (N, 4) tensor t.  The function clones t and writes
\* only into the clone: "returned" is the new tensor, "argument" is what the
\* caller's tensor t holds after the call.
convert_bbox_center_xywh_tensor_to_xyxy(t) ==
    [returned |-> [i \in 1..Len(t) |-> center_xywh_row_to_xyxy(t[i])],
     argument |-> t]

\* mutant: the clamp is missing
no_clamp(x) == x

\* torch.clamp(x, min=0)
clamp_min0(x) == IF x < 0 THEN 0 ELSE x

\* intersection area of two xyxy boxes
intersection_area(a, b) ==
    LET top_left == <<Max2(a[1], b[1]), Max2(a[2], b[2])>>
        bottom_right == <<Min2(a[3], b[3]), Min2(a[4], b[4])>>
        wh == <<clamp_min0(fl[bottom_right[1] - top_left[1]]),
                clamp_min0(fl[bottom_right[2] - top_left[2]])>>
    IN fl[wh[1] * wh[2]]

bbox_area(a) == fl[fl[a[3] - a[1]] * fl[a[4] - a[2]]]

\* ious[i][j] = intersection / (area_1[i] + area_2[j] - intersection), kept as
\* the pair <<intersection, union>>
compute_bboxes_ious(g1, g2) ==
    [i \in 1..Len(g1) |->
        [j \in 1..Len(g2) |->
            LET inter == intersection_area(g1[i], g2[j])
            IN <<inter, fl[fl[bbox_area(g1[i]) + bbox_area(g2[j])] - inter]>>]]

----------------------------------------------------------------------------
(* padding *)

\* numpy arithmetic on the two-entry <<width, height>> arrays
array_minus(a, b) == [k \in DOMAIN a |-> a[k] - b[k]]
array_greater(a, n) == [k \in DOMAIN a |-> a[k] > n]
array_times_mask(a, mask) == [k \in DOMAIN a |-> IF mask[k] THEN a[k] ELSE 0]
array_floordiv(a, n) == [k \in DOMAIN a |-> a[k] \div n]
array_any(a) == \E k \in DOMAIN a : a[k] # 0

\* An image is its size <<width, height>> and the place of the caller's
\* picture in it, the offset <<x, y>> of the picture's first pixel.
\* ImageOps.expand with a four-entry border reads it as (left, top, right,
\* bottom), makes an image of the grown size and pastes the old one at
\* (left, top).
ImageOps_expand(image, border) ==
    [size |-> <<border[1] + image.size[1] + border[3],
                border[2] + image.size[2] + border[4]>>,
     origin |-> <<image.origin[1] + border[1], image.origin[2] + border[2]>>]

\* mutant: the two centre columns take the padding of each other's axis
shift_centers_axes_swapped(bboxes, top_and_left) ==
    [returned |-> [i \in 1..Len(bboxes) |->
                      <<fl[bboxes[i][1] + 2 * top_and_left[2]],
                        fl[bboxes[i][2] + 2 * top_and_left[1]],
                        bboxes[i][3], bboxes[i][4]>>],
     argument |-> bboxes]

\* clone(), then columns 0 and 1 of the clone are written from the argument
\* plus entries 0 and 1 of expand_difference_top_and_left (pixels, two quanta
\* each); "argument" is what the caller's tensor holds afterwards
shift_centers(bboxes, top_and_left) ==
    [returned |-> [i \in 1..Len(bboxes) |->
                      <<fl[bboxes[i][1] + 2 * top_and_left[1]],
                        fl[bboxes[i][2] + 2 * top_and_left[2]],
                        bboxes[i][3], bboxes[i][4]>>],
     argument |-> bboxes]

\* the image part of pad_to_size_with_bounding_boxes, given the two halves of
\* the padding
expand_if_needed(image, top_and_left, bottom_and_right) ==
    IF array_any(top_and_left \o bottom_and_right)
    THEN ImageOps_expand(image, top_and_left \o bottom_and_right)
    ELSE image

\* expand_difference split into its two halves
split_and_pad(image, bboxes, expand_difference, top_and_left) ==
    [processed_img |-> expand_if_needed(image, top_and_left,
                                        array_minus(expand_difference, top_and_left)),
     boxes |-> shift_centers(bboxes, top_and_left)]

pad_expand_difference(difference) ==
    array_times_mask(difference, array_greater(difference, 0))

pad_with_difference(image, bboxes, expand_difference) ==
    split_and_pad(image, bboxes, expand_difference, array_floordiv(expand_difference, 2))

pad_to_size_with_bounding_boxes(image, size, bboxes) ==
    pad_with_difference(image, bboxes, pad_expand_difference(array_minus(size, image.size)))

----------------------------------------------------------------------------
(* anchor generation *)

\* mutant: the quotient is truncated, not rounded up
feature_map_size_floor(input_img_size, s) ==
    <<input_img_size[1] \div s, input_img_size[2] \div s>>

\* np.ceil(input_size / stride) per entry, in the order of the input tuple
compute_network_output_feature_map_size(input_img_size, s) ==
    <<(input_img_size[1] + s - 1) \div s, (input_img_size[2] + s - 1) \div s>>

\* math.sqrt, on the perfect squares the configurations of the model produce
Sqrt(n) == CHOOSE r \in 0..n : r * r = n

\* (w, h) of one (area, ratio) pair, in quanta:
\* w = sqrt(ratio * area), h = area / w
anchor_box_size(area, ratio) ==
    LET w == Sqrt((ratio[1] * area) \div ratio[2])
        h == area \div w
    IN <<2 * w, 2 * h>>

\* the inner loop over self.aspect_ratios
RECURSIVE sizes_of_area(_, _)
sizes_of_area(area, ratios) ==
    IF ratios = <<>> THEN <<>>
    ELSE <<anchor_box_size(area, Head(ratios))>> \o sizes_of_area(area, Tail(ratios))

\* mutant: the two loops are nested the other way round
RECURSIVE sizes_ratios_outer(_, _)
sizes_ratios_outer(areas, ratios) ==
    IF ratios = <<>> THEN <<>>
    ELSE [a \in 1..Len(areas) |-> anchor_box_size(areas[a], Head(ratios))]
            \o sizes_ratios_outer(areas, Tail(ratios))

\* the outer loop over self.anchor_areas
RECURSIVE get_anchor_boxes_sizes(_, _)
get_anchor_boxes_sizes(areas, ratios) ==
    IF areas = <<>> THEN <<>>
    ELSE sizes_of_area(Head(areas), ratios) \o get_anchor_boxes_sizes(Tail(areas), ratios)

\* np.meshgrid(range(width), range(height)) flattened: entry n (0-based) of
\* meshgrid_height.flatten() is n div width, of meshgrid_width.flatten() n mod width;
\* zip pairs them as (height entry, width entry); then + 0.5 and * stride.
get_anchor_boxes_center_coordinates(input_size, s) ==
    LET fm == compute_network_output_feature_map_size(input_size, s)
        feature_map_height == fm[1]
        feature_map_width == fm[2]
    IN [n \in 1..(feature_map_height * feature_map_width) |->
            LET mh == (n - 1) \div feature_map_width
                mw == (n - 1) % feature_map_width
            IN <<(2 * mh + 1) * s, (2 * mw + 1) * s>>]

\* centers (C, 1, 2) repeated along axis 1: row i holds k copies of center i
repeat_axis1(centers, k) == [i \in 1..Len(centers) |-> [j \in 1..k |-> centers[i]]]

\* sizes (1, K, 2) repeated along axis 0: c copies of the whole size row
repeat_axis0(sizes, c) == [i \in 1..c |-> sizes]

\* np.dstack: concatenate along the last axis
dstack(a, b) == [i \in 1..Len(a) |-> [j \in 1..Len(a[i]) |-> a[i][j] \o b[i][j]]]

\* reshape((-1, 4)) of a (C, K, 4) array: rows in C order
RECURSIVE reshape_rows(_)
reshape_rows(a) == IF a = <<>> THEN <<>> ELSE Head(a) \o reshape_rows(Tail(a))

\* torch.FloatTensor(array)
FloatTensor(rows) == [i \in 1..Len(rows) |-> [j \in 1..Len(rows[i]) |-> fl[rows[i][j]]]]

\* mutant: the centres are computed for self.input_image_size, not for the argument
precompute_for_stored_size(input_size, areas, ratios, s) ==
    LET anchor_boxes_sizes == get_anchor_boxes_sizes(areas, ratios)
        centers == get_anchor_boxes_center_coordinates(input_image_size, s)
    IN FloatTensor(reshape_rows(dstack(repeat_axis1(centers, Len(anchor_boxes_sizes)),
                                       repeat_axis0(anchor_boxes_sizes, Len(centers)))))

\* the value precompute_anchor_boxes stores in self.anchor_boxes
precompute_anchor_boxes(input_size, areas, ratios, s) ==
    LET anchor_boxes_sizes == get_anchor_boxes_sizes(areas, ratios)
        centers == get_anchor_boxes_center_coordinates(input_size, s)
        sizes_number == Len(anchor_boxes_sizes)
        centers_number == Len(centers)
    IN FloatTensor(reshape_rows(dstack(repeat_axis1(centers, sizes_number),
                                       repeat_axis0(anchor_boxes_sizes, centers_number))))

----------------------------------------------------------------------------
(* encode *)

\* the literals 0.5 and 0.4 of the label thresholds
foreground_threshold == <<1, 2>>
ignore_threshold == <<2, 5>>

\* ious.max(1) on one row: the scan keeps the running maximum and replaces it
\* only by a value that is not <= it, so the first maximal entry wins
RECURSIVE max_scan(_, _, _)
max_scan(row, j, best) ==
    IF j > Len(row) THEN best
    ELSE max_scan(row, j + 1, IF ~QLe(row[j], best[1]) THEN <<row[j], j>> ELSE best)

\* mutant: the running maximum is also replaced by an equal value, the last
\* maximal entry wins
RECURSIVE max_scan_last(_, _, _)
max_scan_last(row, j, best) ==
    IF j > Len(row) THEN best
    ELSE max_scan_last(row, j + 1, IF QLe(best[1], row[j]) THEN <<row[j], j>> ELSE best)

row_max_last(row) == max_scan_last(row, 2, <<row[1], 1>>)

row_max(row) == max_scan(row, 2, <<row[1], 1>>)

\* delta_xy and delta_wh of one anchor a against the ground-truth box g
regression_delta(g, a) ==
    <<Quot(fl[g[1] - a[1]], a[3]), Quot(fl[g[2] - a[2]], a[4]),
      Log(Quot(g[3], a[3])), Log(Quot(g[4], a[4]))>>

\* mutant: the background test is <= 0.5
background_pass_inclusive(labels, best_ious) ==
    [i \in 1..Len(labels) |->
        IF QLe(best_ious[i], foreground_threshold) THEN 0 ELSE labels[i]]

\* mutant: the background assignment is missing
background_pass_skipped(labels, best_ious) == labels

\* target_labels[best_iou < 0.5] = 0
background_pass(labels, best_ious) ==
    [i \in 1..Len(labels) |->
        IF QLt(best_ious[i], foreground_threshold) THEN 0 ELSE labels[i]]

\* ignore = (best_iou > 0.4) & (best_iou < 0.5); target_labels[ignore] = -1
ignore_pass(labels, best_ious) ==
    [i \in 1..Len(labels) |->
        IF QLt(ignore_threshold, best_ious[i]) /\ QLt(best_ious[i], foreground_threshold)
        THEN -1 ELSE labels[i]]

\* mutant: every anchor is regressed against the first ground-truth box
best_match_first_row(gt_boxes, ids) == [i \in 1..Len(ids) |-> gt_boxes[1]]

\* the ground-truth row each anchor's regression target is computed against
best_match_anchorwise(gt_boxes, ids) == [i \in 1..Len(ids) |-> gt_boxes[ids[i]]]

\* The whole of encode on the manager's anchor tensor and the caller's two
\* tensors; the "_after" fields are what those tensors hold when encode returns.
encode(anchors, gt_boxes, gt_labels) ==
    LET conv_anchors == convert_bbox_center_xywh_tensor_to_xyxy(anchors)
        anchors_now == conv_anchors.argument
        conv_gt == convert_bbox_center_xywh_tensor_to_xyxy(gt_boxes)
        gt_now == conv_gt.argument
        iou == compute_bboxes_ious(conv_anchors.returned, conv_gt.returned)
        best == [i \in 1..Len(iou) |-> row_max(iou[i])]
        best_ious == [i \in 1..Len(iou) |-> best[i][1]]
        best_ids == [i \in 1..Len(iou) |-> best[i][2]]
        matched == best_match_anchorwise(gt_now, best_ids)
        deltas == [i \in 1..Len(iou) |-> regression_delta(matched[i], anchors_now[i])]
        labels == [i \in 1..Len(iou) |-> gt_labels[best_ids[i]] + 1]
    IN [anchor_boxes_after |-> anchors_now,
        ground_truth_boxes_after |-> gt_now,
        ground_truth_labels_after |-> gt_labels,
        ious |-> iou,
        match_ious |-> best_ious,
        match_ids |-> best_ids,
        target_deltas |-> deltas,
        target_labels |-> ignore_pass(background_pass(labels, best_ious), best_ious)]

----------------------------------------------------------------------------
(* inputs of the model *)

MaxGT == 2          \* ground-truth boxes per image
MaxConversions == 2 \* length of a chain of format conversions

ImageSizes == {<<2, 2>>, <<2, 3>>, <<3, 2>>, <<3, 3>>}
Strides == {1, 2}
AreaLists == {<<4>>, <<4, 16>>}
RatioLists == {<<<<1, 1>>>>, <<<<1, 1>>, <<4, 1>>>>, <<<<1, 4>>, <<1, 1>>>>}

\* ground-truth class ids, 0-based
GTLabels == {0, 1}

\* labelled ground-truth boxes, center_xywh in quanta; the box equal to an
\* anchor comes with either label.  Against the anchor of size (4, 4) at centre
\* (2, 2) the boxes' ious are 1, 1/2, 2/5, 4/9 and 0.
GTRows == {<<<<2, 2, 4, 4>>, 0>>, <<<<2, 2, 4, 4>>, 1>>, <<<<2, 1, 4, 2>>, 1>>,
           <<<<3, 1, 6, 2>>, 0>>, <<<<3, 3, 6, 6>>, 1>>, <<<<40, 40, 2, 2>>, 0>>}

RECURSIVE SeqsUpTo(_, _)
SeqsUpTo(S, n) ==
    IF n = 0 THEN {<<>>}
    ELSE LET shorter == SeqsUpTo(S, n - 1)
         IN shorter \cup {Append(q, x) : q \in {p \in shorter : Len(p) = n - 1}, x \in S}

\* the images of the encode study: every list of 1..MaxGT labelled boxes
GTLists == SeqsUpTo(GTRows, MaxGT) \ {<<>>}

\* the images of the lifecycle study
FewGTLists == {<<<<<<2, 2, 4, 4>>, 0>>>>,
               <<<<<<3, 3, 6, 6>>, 1>>, <<<<2, 1, 4, 2>>, 0>>>>}

boxes_of(rows) == [i \in 1..Len(rows) |-> rows[i][1]]
labels_of(rows) == [i \in 1..Len(rows) |-> rows[i][2]]

----------------------------------------------------------------------------
(* the manager and its caller *)

NoCall == <<>>

ConfigRead(size, areas, ratios, s) ==
    [input_size |-> size, anchor_areas |-> areas, aspect_ratios |-> ratios, stride |-> s]

PadIdle ==
    /\ input_img = [size |-> <<0, 0>>, origin |-> <<0, 0>>]
    /\ padded_size = <<>>
    /\ bboxes_center_xywh = <<>>
    /\ bboxes_given = <<>>
    /\ processed_img = [size |-> <<0, 0>>, origin |-> <<0, 0>>]
    /\ bboxes_center_xywhh_padded = <<>>

GeometryIdle ==
    /\ bbox = <<>>
    /\ bbox_format = "none"
    /\ bbox_trail = <<>>
    /\ iou_args = <<>>
    /\ iou_result = <<>>

CallCleared ==
    /\ ious' = NoCall
    /\ match_ious' = NoCall
    /\ match_ids' = NoCall
    /\ target_deltas' = NoCall
    /\ target_labels' = NoCall

\* AnchorBoxesManager.__init__
Construct(size, areas, ratios, s) ==
    /\ input_image_size = size
    /\ anchor_areas = areas
    /\ aspect_ratios = ratios
    /\ stride = s
    /\ anchor_boxes = precompute_anchor_boxes(size, areas, ratios, s)
    /\ built = ConfigRead(size, areas, ratios, s)
    /\ ground_truth_boxes_center_xywh = <<>>
    /\ ground_truth_labels = <<>>
    /\ ious = NoCall
    /\ match_ious = NoCall
    /\ match_ids = NoCall
    /\ target_deltas = NoCall
    /\ target_labels = NoCall

Init ==
    /\ \E size \in ImageSizes, areas \in AreaLists, ratios \in RatioLists, s \in Strides :
          Construct(size, areas, ratios, s)
    /\ GeometryIdle
    /\ PadIdle

\* manager.precompute_anchor_boxes(input_size): reads the argument and the three
\* stored fields, writes self.anchor_boxes only
PrecomputeAnchorBoxes(input_size) ==
    /\ anchor_boxes' = precompute_anchor_boxes(input_size, anchor_areas, aspect_ratios, stride)
    /\ built' = ConfigRead(input_size, anchor_areas, aspect_ratios, stride)
    /\ CallCleared
    /\ UNCHANGED <<input_image_size, anchor_areas, aspect_ratios, stride, callerVars, geometryVars, padVars>>

\* manager.input_image_size = v: a plain attribute, nothing else runs
SetInputImageSize(v) ==
    /\ v # input_image_size
    /\ input_image_size' = v
    /\ CallCleared
    /\ UNCHANGED <<anchor_areas, aspect_ratios, stride, anchor_boxes, built, callerVars, geometryVars, padVars>>

SetAnchorAreas(v) ==
    /\ v # anchor_areas
    /\ anchor_areas' = v
    /\ CallCleared
    /\ UNCHANGED <<input_image_size, aspect_ratios, stride, anchor_boxes, built, callerVars, geometryVars, padVars>>

SetAspectRatios(v) ==
    /\ v # aspect_ratios
    /\ aspect_ratios' = v
    /\ CallCleared
    /\ UNCHANGED <<input_image_size, anchor_areas, stride, anchor_boxes, built, callerVars, geometryVars, padVars>>

SetStride(v) ==
    /\ v # stride
    /\ stride' = v
    /\ CallCleared
    /\ UNCHANGED <<input_image_size, anchor_areas, aspect_ratios, anchor_boxes, built, callerVars, geometryVars, padVars>>

\* the caller prepares the ground truth of the next image; the targets of the
\* previous image are dropped
LoadGroundTruth(rows) ==
    /\ ground_truth_boxes_center_xywh' = boxes_of(rows)
    /\ ground_truth_labels' = labels_of(rows)
    /\ CallCleared
    /\ UNCHANGED <<managerVars, geometryVars, padVars>>

\* manager.encode(ground_truth_boxes_center_xywh, ground_truth_labels)
Encode ==
    /\ Len(ground_truth_boxes_center_xywh) >= 1
    /\ \E r \in {encode(anchor_boxes, ground_truth_boxes_center_xywh, ground_truth_labels)} :
          /\ anchor_boxes' = r.anchor_boxes_after
          /\ ground_truth_boxes_center_xywh' = r.ground_truth_boxes_after
          /\ ground_truth_labels' = r.ground_truth_labels_after
          /\ ious' = r.ious
          /\ match_ious' = r.match_ious
          /\ match_ids' = r.match_ids
          /\ target_deltas' = r.target_deltas
          /\ target_labels' = r.target_labels
    /\ UNCHANGED <<input_image_size, anchor_areas, aspect_ratios, stride, built, geometryVars, padVars>>

Next ==
    \/ \E size \in ImageSizes : PrecomputeAnchorBoxes(size)
    \/ \E size \in ImageSizes : SetInputImageSize(size)
    \/ \E areas \in AreaLists : SetAnchorAreas(areas)
    \/ \E ratios \in RatioLists : SetAspectRatios(ratios)
    \/ \E s \in Strides : SetStride(s)
    \/ \E rows \in FewGTLists : LoadGroundTruth(rows)
    \/ Encode

Spec == Init /\ [][Next]_vars

\* the encode study: a constructed manager and one image, any of GTLists,
\* which the caller loads and then encodes
NextEncode ==
    \/ \E rows \in GTLists : ground_truth_labels = <<>> /\ LoadGroundTruth(rows)
    \/ Encode

SpecEncode == Init /\ [][NextEncode]_vars

----------------------------------------------------------------------------
(* the geometry study: the conversions and compute_bboxes_ious applied to boxes *)

\* boxes in center_xywh or topleft_xywh: positions small, and next to 2^24
\* where float32 has no odd values above; sizes even
XYWHBoxes == {<<x, y, w, h>> : x \in {0, 3, 5, 16777213, 16777215}, y \in {0, 1},
                               w \in {2, 4}, h \in {2}}

\* non-degenerate boxes in xyxy
XYXYBoxes == {b \in (0..3) \X (0..3) \X (0..3) \X (0..3) : b[1] < b[3] /\ b[2] < b[4]}

\* the manager of the geometry study is the one constructed with the first
\* entries of the configuration sets; the study never touches it
InitGeometry ==
    /\ Construct(<<2, 2>>, <<4>>, <<<<1, 1>>>>, 2)
    /\ \/ bbox_format \in {"center_xywh", "topleft_xywh"} /\ bbox \in XYWHBoxes
       \/ bbox_format = "xyxy" /\ bbox \in XYXYBoxes
    /\ bbox_trail = <<>>
    /\ iou_args = <<>>
    /\ iou_result = <<>>
    /\ PadIdle

Converted(new_box, new_format) ==
    /\ Len(bbox_trail) < MaxConversions
    /\ iou_args = <<>>
    /\ bbox' = new_box
    /\ bbox_format' = new_format
    /\ bbox_trail' = Append(bbox_trail, [format |-> bbox_format, box |-> bbox])
    /\ UNCHANGED <<managerVars, callerVars, callVars, iou_args, iou_result, padVars>>

TopleftToCenter ==
    /\ bbox_format = "topleft_xywh"
    /\ Converted(convert_bbox_topleft_xywh_tensor_to_center_xywh(bbox), "center_xywh")

CenterToTopleft ==
    /\ bbox_format = "center_xywh"
    /\ Converted(convert_bbox_center_xywh_tensor_to_topleft_xywh(bbox), "topleft_xywh")

CenterToXYXY ==
    /\ bbox_format = "center_xywh"
    /\ Converted(convert_bbox_center_xywh_tensor_to_xyxy(<<bbox>>).returned[1], "xyxy")

TopleftToXYXY ==
    /\ bbox_format = "topleft_xywh"
    /\ Converted(convert_bbox_topleft_xywh_tensor_to_xyxy(bbox), "xyxy")

\* compute_bboxes_ious on the box at hand and another xyxy box
ComputeIoU(other) ==
    /\ bbox_format = "xyxy"
    /\ iou_args = <<>>
    /\ iou_args' = <<bbox, other>>
    /\ iou_result' = compute_bboxes_ious(<<bbox>>, <<other>>)[1][1]
    /\ UNCHANGED <<managerVars, callerVars, callVars, bbox, bbox_format, bbox_trail, padVars>>

NextGeometry ==
    \/ TopleftToCenter
    \/ CenterToTopleft
    \/ CenterToXYXY
    \/ TopleftToXYXY
    \/ \E other \in XYXYBoxes \cup {bbox} : ComputeIoU(other)

SpecGeometry == InitGeometry /\ [][NextGeometry]_vars

----------------------------------------------------------------------------
(* the padding study: pad_to_size_with_bounding_boxes applied to images and boxes *)

MaxPadBoxes == 2    \* boxes per padded image

\* image and target sizes <<width, height>>, in pixels
PadImageSizes == (1..3) \X (1..3)
PadTargetSizes == (1..4) \X (1..4)

\* boxes in center_xywh, in quanta; the last has a centre next to 2^24 quanta
PadBoxes == {<<2, 2, 4, 4>>, <<3, 1, 2, 2>>, <<16777215, 1, 2, 2>>}

PadBoxLists == SeqsUpTo(PadBoxes, MaxPadBoxes)

InitPad ==
    /\ Construct(<<2, 2>>, <<4>>, <<<<1, 1>>>>, 2)
    /\ GeometryIdle
    /\ PadIdle

\* pad_to_size_with_bounding_boxes(input_img, size, bboxes_center_xywh) on a
\* fresh image of size img_size
PadToSizeWithBoundingBoxes(img_size, size, bboxes) ==
    /\ \E r \in {pad_to_size_with_bounding_boxes([size |-> img_size, origin |-> <<0, 0>>],
                                                 size, bboxes)} :
          /\ input_img' = [size |-> img_size, origin |-> <<0, 0>>]
          /\ padded_size' = size
          /\ bboxes_center_xywh' = r.boxes.argument
          /\ bboxes_given' = bboxes
          /\ processed_img' = r.processed_img
          /\ bboxes_center_xywhh_padded' = r.boxes.returned
    /\ UNCHANGED <<managerVars, callerVars, callVars, geometryVars>>

\* the study pads one image
NextPad ==
    \E img_size \in PadImageSizes, size \in PadTargetSizes, bboxes \in PadBoxLists :
        padded_size = <<>> /\ PadToSizeWithBoundingBoxes(img_size, size, bboxes)

SpecPad == InitPad /\ [][NextPad]_vars

----------------------------------------------------------------------------
(* reference definitions used by the properties *)

Encoded == target_labels # NoCall

Anchors == 1..Len(anchor_boxes)

GroundTruths == 1..Len(ground_truth_boxes_center_xywh)

\* the exact iou of two center_xywh boxes, as <<intersection, union>>, computed
\* on doubled coordinates from the centres and sizes themselves
RefIoU(a, g) ==
    LET iw == Min2(2 * a[1] + a[3], 2 * g[1] + g[3]) - Max2(2 * a[1] - a[3], 2 * g[1] - g[3])
        ih == Min2(2 * a[2] + a[4], 2 * g[2] + g[4]) - Max2(2 * a[2] - a[4], 2 * g[2] - g[4])
        inter == IF iw > 0 /\ ih > 0 THEN iw * ih ELSE 0
    IN <<inter, 4 * a[3] * a[4] + 4 * g[3] * g[4] - inter>>

RefIoUOf(i, j) == RefIoU(anchor_boxes[i], ground_truth_boxes_center_xywh[j])

\* the lowest ground-truth index at which anchor i's exact iou is maximal
RefBestJ(i) ==
    CHOOSE j \in GroundTruths :
        /\ \A k \in GroundTruths : QLe(RefIoUOf(i, k), RefIoUOf(i, j))
        /\ \A k \in 1..(j - 1) : QLt(RefIoUOf(i, k), RefIoUOf(i, j))

RefBestIoU(i) == RefIoUOf(i, RefBestJ(i))

\* the label policy as the specification words it
PolicyLabel(best_iou, gt_label) ==
    IF QLt(ignore_threshold, best_iou) /\ QLt(best_iou, foreground_threshold) THEN -1
    ELSE IF QLt(best_iou, foreground_threshold) THEN 0
    ELSE gt_label + 1

num_classes == Cardinality(GTLabels)

----------------------------------------------------------------------------
(* C1: after encode every anchor's label follows the policy on its best iou:
   -1 strictly between 0.4 and 0.5, else 0 below 0.5, else the label of the
   best ground truth plus one; every label lies in {-1, 0, 1..num_classes} *)
C1_LabelPolicy ==
    Encoded =>
        /\ Len(target_labels) = Len(anchor_boxes)
        /\ \A i \in Anchors :
              /\ target_labels[i] =
                    PolicyLabel(RefBestIoU(i), ground_truth_labels[RefBestJ(i)])
              /\ target_labels[i] \in {-1} \cup (0..num_classes)
              /\ QEq(RefBestIoU(i), ignore_threshold) => target_labels[i] = 0
              /\ QEq(RefBestIoU(i), foreground_threshold) => target_labels[i] >= 1

\* an encode whose anchors meet the ignore band, the background and the foreground
C1_Witness ==
    /\ Encoded
    /\ \E i \in Anchors : QEq(RefBestIoU(i), foreground_threshold) /\ target_labels[i] >= 1
    /\ \E i \in Anchors : target_labels[i] = -1
    /\ \E i \in Anchors : target_labels[i] = 0

(* C2: encode matches each anchor to the lowest ground-truth index at which its
   row of ious is maximal, and takes both the regression delta and the label
   before thresholding from that index *)
C2_FirstArgMax ==
    Encoded =>
        \A i \in Anchors :
            LET j == CHOOSE j \in GroundTruths :
                        /\ \A k \in GroundTruths : QLe(ious[i][k], ious[i][j])
                        /\ \A k \in 1..(j - 1) : QLt(ious[i][k], ious[i][j])
                g == ground_truth_boxes_center_xywh[j]
                a == anchor_boxes[i]
            IN /\ match_ids[i] = j
               /\ QEq(match_ious[i], ious[i][j])
               /\ QEq(target_deltas[i][1], <<g[1] - a[1], a[3]>>)
               /\ QEq(target_deltas[i][2], <<g[2] - a[2], a[4]>>)
               /\ QEq(target_deltas[i][3].ln, <<g[3], a[3]>>)
               /\ QEq(target_deltas[i][4].ln, <<g[4], a[4]>>)
               /\ target_labels[i] \in {0, -1, ground_truth_labels[j] + 1}
               /\ ~QLt(ious[i][j], foreground_threshold)
                     => target_labels[i] = ground_truth_labels[j] + 1

\* two ground truths with different labels tie for an anchor's positive maximum,
\* and another anchor has iou 0 with every ground truth
C2_Witness ==
    /\ Encoded
    /\ \E i \in Anchors : \E j, k \in GroundTruths :
          /\ j < k
          /\ ground_truth_labels[j] # ground_truth_labels[k]
          /\ QEq(ious[i][j], ious[i][k]) /\ ious[i][j][1] > 0
          /\ \A m \in GroundTruths : QLe(ious[i][m], ious[i][j])
          /\ match_ids[i] = j
          /\ target_labels[i] = ground_truth_labels[j] + 1
    /\ \E i \in Anchors :
          /\ \A m \in GroundTruths : ious[i][m][1] = 0
          /\ match_ids[i] = 1

(* C8: an anchor whose matched ground-truth box has the anchor's own
   (cx, cy, w, h) gets the regression delta (0, 0, 0, 0), best iou 1 and the
   foreground label of that ground truth *)
C8_IdentityDelta ==
    Encoded =>
        \A i \in Anchors :
            ground_truth_boxes_center_xywh[RefBestJ(i)] = anchor_boxes[i] =>
                /\ target_deltas[i] = <<<<0, 1>>, <<0, 1>>, Log(<<1, 1>>), Log(<<1, 1>>)>>
                /\ match_ious[i][1] = match_ious[i][2]
                /\ match_ious[i][2] > 0
                /\ target_labels[i] = ground_truth_labels[RefBestJ(i)] + 1

\* the anchor's twin is the second ground truth of the image, the first is another box
C8_Witness ==
    /\ Encoded
    /\ \E i \in Anchors :
          /\ RefBestJ(i) = 2
          /\ ground_truth_boxes_center_xywh[2] = anchor_boxes[i]
          /\ ground_truth_boxes_center_xywh[1] # anchor_boxes[i]
          /\ target_labels[i] = ground_truth_labels[2] + 1

----------------------------------------------------------------------------
(* the anchor set: properties of what the latest precompute_anchor_boxes stored,
   stated on the values it read (built) *)

\* ceil(n / s) from its defining property
CeilDiv(n, s) == CHOOSE c \in 0..n : c * s >= n /\ (c - 1) * s < n

BuiltW == built.input_size[1]
BuiltH == built.input_size[2]
BuiltK == Len(built.anchor_areas) * Len(built.aspect_ratios)

C4_AnchorOrder ==
    LET centers == get_anchor_boxes_center_coordinates(built.input_size, built.stride)
        R == Len(built.aspect_ratios)
    IN /\ Len(anchor_boxes) = Len(centers) * BuiltK
       /\ \A i \in 0..(Len(centers) - 1) :
             \A a \in 0..(Len(built.anchor_areas) - 1) : \A r \in 0..(R - 1) :
                anchor_boxes[i * BuiltK + (a * R + r) + 1] =
                    centers[i + 1] \o anchor_box_size(built.anchor_areas[a + 1],
                                                      built.aspect_ratios[r + 1])

\* two areas, two ratios giving four different sizes, at least two centres
C4_Witness ==
    /\ Len(built.anchor_areas) = 2
    /\ Len(built.aspect_ratios) = 2
    /\ Len(anchor_boxes) >= 8
    /\ Cardinality({<<anchor_boxes[k][3], anchor_boxes[k][4]>> : k \in 1..4}) = 4
    /\ <<anchor_boxes[1][1], anchor_boxes[1][2]>> # <<anchor_boxes[5][1], anchor_boxes[5][2]>>

(* C5: with the input size given as (W, H), the centre of grid cell (row r, col c)
   is (cx, cy) = ((c + 0.5) * stride, (r + 0.5) * stride) and the centres are
   enumerated row-major, rows along the height and columns along the width *)
C5_RowMajorCenters ==
    LET rows == CeilDiv(BuiltH, built.stride)
        cols == CeilDiv(BuiltW, built.stride)
    IN \A r \in 0..(rows - 1) : \A c \in 0..(cols - 1) :
          LET first == anchor_boxes[(r * cols + c) * BuiltK + 1]
          IN /\ first[1] = (2 * c + 1) * built.stride
             /\ first[2] = (2 * r + 1) * built.stride

\* a grid of at least two rows and two columns
C5_Witness ==
    /\ CeilDiv(BuiltH, built.stride) >= 2
    /\ CeilDiv(BuiltW, built.stride) >= 2

GeneratedAnchorSet(size, areas, ratios, s) ==
    LET centers == get_anchor_boxes_center_coordinates(size, s)
        sizes == get_anchor_boxes_sizes(areas, ratios)
    IN [n \in 1..(Len(centers) * Len(sizes)) |->
            centers[((n - 1) \div Len(sizes)) + 1] \o sizes[((n - 1) % Len(sizes)) + 1]]

(* C10 as stated: in every reachable state the stored anchor set is the one
   generated from the configuration the manager stores now *)
C10_MatchesStoredConfig ==
    anchor_boxes = GeneratedAnchorSet(input_image_size, anchor_areas, aspect_ratios, stride)

(* C10 amended: the stored anchor set is the one generated from what the latest
   precompute_anchor_boxes call read, its input_size argument and the areas,
   ratios and stride stored at that call *)
C10_MatchesLastPrecompute ==
    anchor_boxes = GeneratedAnchorSet(built.input_size, built.anchor_areas,
                                      built.aspect_ratios, built.stride)

\* precompute_anchor_boxes ran for a size other than the stored one, and a stored
\* field was assigned after it
C10_Witness ==
    /\ built.input_size # input_image_size
    /\ built.stride # stride
    /\ Len(anchor_boxes) > 0

----------------------------------------------------------------------------
(* geometry properties *)

NonDegenerate(b) == b[1] < b[3] /\ b[2] < b[4]

\* no common interior: apart, or touching along an edge
Disjoint(a, b) == a[3] <= b[1] \/ b[3] <= a[1] \/ a[4] <= b[2] \/ b[4] <= a[2]

(* C6: for non-degenerate xyxy boxes 0 <= iou <= 1, iou = 0 when the boxes are
   disjoint or touch along an edge, iou = 1 when they are the same box *)
C6_IoURange ==
    (iou_args # <<>> /\ NonDegenerate(iou_args[1]) /\ NonDegenerate(iou_args[2])) =>
        /\ iou_result[2] > 0
        /\ 0 <= iou_result[1]
        /\ iou_result[1] <= iou_result[2]
        /\ Disjoint(iou_args[1], iou_args[2]) => iou_result[1] = 0
        /\ iou_args[1] = iou_args[2] => iou_result[1] = iou_result[2]

\* boxes apart on both axes
C6_Witness ==
    /\ iou_args # <<>>
    /\ NonDegenerate(iou_args[1]) /\ NonDegenerate(iou_args[2])
    /\ iou_args[1][3] < iou_args[2][1]
    /\ iou_args[1][4] < iou_args[2][2]
    /\ iou_result[1] = 0

\* the box two conversions back, when the chain returned to its format
BackTwo == bbox_trail[Len(bbox_trail) - 1]

RoundTripDone == Len(bbox_trail) >= 2 /\ BackTwo.format = bbox_format

(* C7 as stated: converting a box to another format and back reproduces the
   original box exactly *)
C7_RoundTripExact == RoundTripDone => bbox = BackTwo.box

\* what the first conversion of a round trip computes before rounding
Intermediate(b, k) ==
    IF bbox_format = "topleft_xywh" THEN b[k] + HalfOf(b[k + 2]) ELSE b[k] - HalfOf(b[k + 2])

(* C7 amended: center_xywh <-> topleft_xywh round trips leave w and h unchanged
   and reproduce x and y exactly whenever the intermediate coordinate is a
   float32 value, and otherwise to within the float32 spacing at the coordinate *)
C7_RoundTripWithinRounding ==
    RoundTripDone =>
        /\ bbox[3] = BackTwo.box[3]
        /\ bbox[4] = BackTwo.box[4]
        /\ \A k \in {1, 2} :
              LET mid == Intermediate(BackTwo.box, k)
              IN /\ fl[mid] = mid => bbox[k] = BackTwo.box[k]
                 /\ Abs(bbox[k] - BackTwo.box[k]) <= Spacing(Max2(Abs(mid), Abs(BackTwo.box[k])))

\* a round trip whose intermediate x needed rounding
C7_Witness ==
    /\ RoundTripDone
    /\ fl[Intermediate(BackTwo.box, 1)] # Intermediate(BackTwo.box, 1)
    /\ bbox[1] # BackTwo.box[1]

----------------------------------------------------------------------------
(* padding *)

Padded == padded_size # <<>>

\* the padding an axis needs (1 is the width, 2 the height) and its leading part
NeededPadding(k) == Max2(0, padded_size[k] - input_img.size[k])
LeadingPadding(k) == NeededPadding(k) \div 2

(* C11: pad_to_size_with_bounding_boxes never crops, the result has the larger
   of the input and the target size on each axis; the needed padding d of an
   axis goes floor(d/2) before the picture (left, top) and d - floor(d/2) after
   it; every box keeps w and h and has its centre x moved by the left padding
   and its centre y by the top padding, in float32; the caller's box tensor is
   left as it was given *)
C11_PadSplitAndShift ==
    Padded =>
        /\ \A k \in {1, 2} :
              /\ processed_img.size[k] = Max2(input_img.size[k], padded_size[k])
              /\ processed_img.origin[k] = LeadingPadding(k)
              /\ processed_img.size[k] - processed_img.origin[k] - input_img.size[k]
                    = NeededPadding(k) - LeadingPadding(k)
        /\ Len(bboxes_center_xywhh_padded) = Len(bboxes_given)
        /\ \A i \in 1..Len(bboxes_given) :
              bboxes_center_xywhh_padded[i] =
                  <<fl[bboxes_given[i][1] + 2 * LeadingPadding(1)],
                    fl[bboxes_given[i][2] + 2 * LeadingPadding(2)],
                    bboxes_given[i][3], bboxes_given[i][4]>>
        /\ bboxes_center_xywh = bboxes_given

\* an image wider than the target and 3 pixels lower: nothing is cropped, the
\* top gets 1 pixel and the bottom 2, and the boxes move down only
C11_Witness ==
    /\ Padded
    /\ input_img.size[1] > padded_size[1]
    /\ NeededPadding(2) = 3
    /\ processed_img.origin = <<0, 1>>
    /\ Len(bboxes_given) >= 1
    /\ bboxes_center_xywhh_padded[1][2] = bboxes_given[1][2] + 2
    /\ bboxes_center_xywhh_padded[1][1] = bboxes_given[1][1]

----------------------------------------------------------------------------
(* matching has no pass that guarantees a positive per ground-truth box *)

\* the anchors that carry a foreground label derived from ground-truth box j
ForegroundAnchorsOf(j) == {i \in Anchors : match_ids[i] = j /\ target_labels[i] >= 1}

(* C12: the anchors encode labels foreground for a ground-truth box j are
   exactly those whose first best match is j with an iou of at least 0.5;
   nothing adds an anchor for a box that has none, so a box no anchor matches
   that well is left without a foreground anchor *)
C12_NoGuaranteedPositive ==
    Encoded =>
        \A j \in GroundTruths :
            ForegroundAnchorsOf(j) =
                {i \in Anchors : RefBestJ(i) = j /\ QLe(foreground_threshold, RefBestIoU(i))}

\* an encode with a non-degenerate ground-truth box that overlaps an anchor
\* and has no foreground anchor
C12_Witness ==
    /\ Encoded
    /\ \E j \in GroundTruths :
          /\ ground_truth_boxes_center_xywh[j][3] > 0
          /\ ground_truth_boxes_center_xywh[j][4] > 0
          /\ \E i \in Anchors : RefIoUOf(i, j)[1] > 0
          /\ ForegroundAnchorsOf(j) = {}

====
